---- MODULE Spec2Model ----
(***************************************************************************)
(* A model of HTMLManager (src/main.py): the Cleaner pipeline working on   *)
(* a parsed document tree, and HTMLProcessor, which loads one HTML file,   *)
(* cleans it, optionally separates content and tables, and writes the      *)
(* artifacts file-N, tables-N and content-N into the output directory.     *)
(***************************************************************************)
EXTENDS Integers, Sequences, FiniteSets, TLC

\* ------------------------------------------------------------------ bounds
\* Largest number of nodes (elements and text nodes) of an input document.
MaxNodes == 3
\* Largest index N probed in the output directory (<category>-<N>.html).
MaxIndex == 3
\* Largest number of files the output directory holds before the run.
MaxPre == 2

\* ------------------------------------------------------------------ trees
\* A node of the document tree. A text node has name "#text" and carries its
\* characters in text; an element carries attrs (a sequence of <<key, value>>)
\* and children. id is the node's identity: the parser numbers the nodes it
\* creates from 1 in document order, a node made by new_tag has id 0.
TextNode(i, cs) ==
  [id |-> i, name |-> "#text", attrs |-> <<>>, text |-> cs, children |-> <<>>]

Elem(i, n, a, ch) ==
  [id |-> i, name |-> n, attrs |-> a, text |-> <<>>, children |-> ch]

IsText(n) == n.name = "#text"

\* Elements the html.parser tree builder treats as void (no content, no end tag).
VoidTags == {"img"}

Whitespace == {" ", "\n"}

HasAttr(n, k) == \E i \in 1..Len(n.attrs) : n.attrs[i][1] = k

AttrValue(n, k) ==
  IF HasAttr(n, k)
  THEN n.attrs[CHOOSE i \in 1..Len(n.attrs) : n.attrs[i][1] = k][2]
  ELSE "#none"

\* del tag[k]
DelAttr(as, k) == SelectSeq(as, LAMBDA a : a[1] # k)

\* tag.find_all(name): the descendants of the forest named nm, in document order.
RECURSIVE FindAll(_, _)
FindAll(f, nm) ==
  IF f = <<>> THEN <<>>
  ELSE LET n == Head(f)
       IN (IF n.name = nm THEN <<n>> ELSE <<>>)
          \o FindAll(n.children, nm) \o FindAll(Tail(f), nm)

\* Every node of the forest, in document order.
RECURSIVE Descendants(_)
Descendants(f) ==
  IF f = <<>> THEN <<>>
  ELSE <<Head(f)>> \o Descendants(Head(f).children) \o Descendants(Tail(f))

Range(s) == {s[i] : i \in 1..Len(s)}

\* node.get_text(strip=True) is non-empty: some text node below (or at) the
\* node has a character that is not whitespace.
RECURSIVE StrippedTextNonEmpty(_)
StrippedTextNonEmpty(n) ==
  IF IsText(n) THEN \E i \in 1..Len(n.text) : n.text[i] \notin Whitespace
  ELSE \E i \in 1..Len(n.children) : StrippedTextNonEmpty(n.children[i])

\* paragraph.find("img") finds something.
HasDescendant(n, nm) == FindAll(n.children, nm) # <<>>

\* ---------------------------------------------------------- serialization
\* str(node): the markup as a sequence of tokens; a start tag, an end tag and
\* a void tag are one token each, the text is one token per character, so the
\* text of adjacent text nodes runs together as it does in a string.
Tok(k, n, a, c) == [k |-> k, name |-> n, attrs |-> a, c |-> c]

RECURSIVE Chars(_)
Chars(cs) ==
  IF cs = <<>> THEN <<>> ELSE <<Tok("char", "", <<>>, Head(cs))>> \o Chars(Tail(cs))

RECURSIVE Serialize(_)
Serialize(f) ==
  IF f = <<>> THEN <<>>
  ELSE LET n == Head(f)
           s == IF IsText(n) THEN Chars(n.text)
                ELSE IF n.name \in VoidTags THEN <<Tok("void", n.name, n.attrs, "")>>
                ELSE <<Tok("open", n.name, n.attrs, "")>>
                     \o Serialize(n.children)
                     \o <<Tok("close", n.name, <<>>, "")>>
       IN s \o Serialize(Tail(f))

\* "\n".join(parts)
RECURSIVE JoinLines(_)
JoinLines(parts) ==
  IF parts = <<>> THEN <<>>
  ELSE IF Len(parts) = 1 THEN parts[1]
  ELSE parts[1] \o <<Tok("char", "", <<>>, "\n")>> \o JoinLines(Tail(parts))

\* The end of the run of character tokens that starts at i.
RECURSIVE CharRunEnd(_, _)
CharRunEnd(toks, i) ==
  IF i <= Len(toks) /\ toks[i].k = "char" THEN CharRunEnd(toks, i + 1) ELSE i

\* BeautifulSoup(markup, "html.parser") on markup whose tags are balanced: the
\* nodes up to the end tag (or the end of input) that closes the enclosing
\* element. nid is the identity the next node gets.
RECURSIVE ParseNodes(_, _, _)
ParseNodes(toks, i, nid) ==
  IF i > Len(toks) \/ toks[i].k = "close"
  THEN [nodes |-> <<>>, pos |-> i, nid |-> nid]
  ELSE IF toks[i].k = "char"
  THEN LET j == CharRunEnd(toks, i)
           node == TextNode(nid, [x \in 1..(j - i) |-> toks[i + x - 1].c])
           rest == ParseNodes(toks, j, nid + 1)
       IN [nodes |-> <<node>> \o rest.nodes, pos |-> rest.pos, nid |-> rest.nid]
  ELSE IF toks[i].k = "void"
  THEN LET node == Elem(nid, toks[i].name, toks[i].attrs, <<>>)
           rest == ParseNodes(toks, i + 1, nid + 1)
       IN [nodes |-> <<node>> \o rest.nodes, pos |-> rest.pos, nid |-> rest.nid]
  ELSE LET inner == ParseNodes(toks, i + 1, nid + 1)
           node == Elem(nid, toks[i].name, toks[i].attrs, inner.nodes)
           rest == ParseNodes(toks, inner.pos + 1, inner.nid)
       IN [nodes |-> <<node>> \o rest.nodes, pos |-> rest.pos, nid |-> rest.nid]

Parse(toks) == ParseNodes(toks, 1, 1).nodes

\* ------------------------------------------------------------ Cleaner rules
\* Cleaner.remove_lang_attributes
RECURSIVE remove_lang_attributes(_)
remove_lang_attributes(f) ==
  IF f = <<>> THEN <<>>
  ELSE LET n == Head(f)
       IN <<[n EXCEPT !.attrs = DelAttr(@, "lang"),
                      !.children = remove_lang_attributes(@)]>>
          \o remove_lang_attributes(Tail(f))

\* Cleaner.remove_spans_tags: every span is replaced by its children.
RECURSIVE remove_spans_tags(_)
remove_spans_tags(f) ==
  IF f = <<>> THEN <<>>
  ELSE LET n == Head(f)
       IN (IF n.name = "span" THEN remove_spans_tags(n.children)
           ELSE <<[n EXCEPT !.children = remove_spans_tags(@)]>>)
          \o remove_spans_tags(Tail(f))

\* tag.decompose() for every tag named nm.
RECURSIVE DecomposeAll(_, _)
DecomposeAll(f, nm) ==
  IF f = <<>> THEN <<>>
  ELSE LET n == Head(f)
       IN (IF n.name = nm THEN <<>>
           ELSE <<[n EXCEPT !.children = DecomposeAll(@, nm)]>>)
          \o DecomposeAll(Tail(f), nm)

\* Cleaner.remove_imgs_tags
remove_imgs_tags(f) == DecomposeAll(f, "img")

\* self.content.new_tag("div", **{"class": "exercise"}) wrapped around p.
ExerciseDiv(p) == Elem(0, "div", <<<<"class", "exercise">>>>, <<p>>)

\* The predicate of wrap_paragraph_with_div: a p that holds an img.
IsParagraphWithImage(n) == n.name = "p" /\ HasDescendant(n, "img")

\* Cleaner.wrap_paragraph_with_div
RECURSIVE wrap_paragraph_with_div(_)
wrap_paragraph_with_div(f) ==
  IF f = <<>> THEN <<>>
  ELSE LET n == Head(f)
           m == [n EXCEPT !.children = wrap_paragraph_with_div(@)]
       IN <<IF IsParagraphWithImage(n) THEN ExerciseDiv(m) ELSE m>>
          \o wrap_paragraph_with_div(Tail(f))

\* The test of clean_empty_tables without strip=True: any text node counts.
IsEmptyTable_unstripped(n) ==
  /\ n.name = "table"
  /\ ~ \E d \in Range(Descendants(n.children)) : IsText(d) /\ d.text # <<>>

\* The test of clean_empty_tables: no descendant of the table has text.
IsEmptyTable(n) ==
  /\ n.name = "table"
  /\ ~ \E d \in Range(Descendants(n.children)) : StrippedTextNonEmpty(d)

\* clean_empty_tables looking at the top-level tables only.
clean_empty_tables_shallow(f) == SelectSeq(f, LAMBDA n : ~ IsEmptyTable(n))

\* Cleaner.clean_empty_tables
RECURSIVE clean_empty_tables(_)
clean_empty_tables(f) ==
  IF f = <<>> THEN <<>>
  ELSE LET n == Head(f)
       IN (IF IsEmptyTable(n) THEN <<>>
           ELSE <<[n EXCEPT !.children = clean_empty_tables(@)]>>)
          \o clean_empty_tables(Tail(f))

\* The names of the parameters of Cleaner.clean (all default to True).
CleanFlags ==
  {"remove_lang", "remove_spans", "remove_imgs", "clean_empty_tables", "wrap_images"}

\* clean with the images removed before the paragraphs are wrapped.
Clean_imgs_first(f, flags) ==
  LET a == IF "remove_lang" \in flags THEN remove_lang_attributes(f) ELSE f
      b == IF "clean_empty_tables" \in flags THEN clean_empty_tables(a) ELSE a
      c == IF "remove_imgs" \in flags THEN remove_imgs_tags(b) ELSE b
      d == IF "wrap_images" \in flags THEN wrap_paragraph_with_div(c) ELSE c
  IN IF "remove_spans" \in flags THEN remove_spans_tags(d) ELSE d

\* Cleaner.clean: the enabled rules in the fixed order lang, empty tables,
\* wrap, spans, imgs.
Clean(f, flags) ==
  LET a == IF "remove_lang" \in flags THEN remove_lang_attributes(f) ELSE f
      b == IF "clean_empty_tables" \in flags THEN clean_empty_tables(a) ELSE a
      c == IF "wrap_images" \in flags THEN wrap_paragraph_with_div(b) ELSE b
      d == IF "remove_spans" \in flags THEN remove_spans_tags(c) ELSE c
  IN IF "remove_imgs" \in flags THEN remove_imgs_tags(d) ELSE d

\* ------------------------------------------------------- output directory
\* The artifact categories; <<category, N>> stands for FILES/<category>-<N>.html.
Categories == {"file", "tables", "content"}

Paths == Categories \X (1..MaxIndex)

\* The content of a file that was in the output directory before the run.
OldContent == <<Tok("char", "", <<>>, "o")>>

Exists(d, path) == path \in DOMAIN d

\* for index in count(1): the first index whose path does not exist.
RECURSIVE FirstFreeFrom(_, _, _)
FirstFreeFrom(d, base, index) ==
  IF ~ Exists(d, <<base, index>>) THEN index ELSE FirstFreeFrom(d, base, index + 1)

\* A path numbered by the count of the category's files instead of by a scan.
GenerateUniqueFilePath_count(d, base) ==
  <<base, Cardinality({path \in DOMAIN d : path[1] = base}) + 1>>

\* HTMLProcessor._generate_unique_file_path
GenerateUniqueFilePath(d, base) == <<base, FirstFreeFrom(d, base, 1)>>

\* The loop at the head of save_processed_file.
ProcessedFilePath(d) == <<"file", FirstFreeFrom(d, "file", 1)>>

\* The loop at the head of save_only_content.
ContentFilePath(d) == <<"content", FirstFreeFrom(d, "content", 1)>>

\* ------------------------------------------------------------ HTMLProcessor
\* The state a method works on and what it did: the tree, the directory, the
\* methods entered (and, where an exception was raised, "raise"), the files
\* opened for writing, the lines printed, and the exception that ended it
\* ("none" when it returned).
Ctx(f, d) ==
  [file |-> f, dir |-> d, calls |-> <<>>, writes |-> <<>>, out |-> <<>>,
   err |-> "none"]

\* Where the environment makes a call fail: nowhere, at the print that ends
\* Cleaner.clean, or at the write of the content, tables or primary artifact.
Faults == {"none", "clean", "content", "tables", "file"}

\* A fault and, for a failing write, whether the file was created before it.
FaultChoices ==
  {<<"none", FALSE>>, <<"clean", FALSE>>} \cup ({"content", "tables", "file"} \X BOOLEAN)

\* raise e
Raise(c, e) == [c EXCEPT !.err = e, !.calls = Append(@, "raise")]

\* One entry of writes: the path opened, what the file holds after the call,
\* whether the write completed, and the method that wrote.
Written(c, path, content, complete) ==
  [path |-> path, content |-> content, complete |-> complete,
   by |-> c.calls[Len(c.calls)]]

\* HTMLProcessor._write_to_file. open(path, "w") creates or truncates the
\* file, f.write fills it. A failing call raises OSError either before the
\* file is created (created = FALSE) or with the file left empty.
WriteToFile(c, path, content, failing, created) ==
  IF ~ failing
  THEN [c EXCEPT !.dir = (path :> content) @@ @,
                 !.writes = Append(@, Written(c, path, content, TRUE))]
  ELSE IF created
  THEN Raise([c EXCEPT !.dir = (path :> <<>>) @@ @,
                       !.writes = Append(@, Written(c, path, <<>>, FALSE))],
             "OSError")
  ELSE Raise(c, "OSError")

\* The method named name is entered.
Enter(c, name) == [c EXCEPT !.calls = Append(@, name)]

\* print(line), reached only if nothing before it raised.
Say(c, line) == IF c.err = "none" THEN [c EXCEPT !.out = Append(@, line)] ELSE c

\* print(line) where the fault may hit it.
SayOrFail(c, line, failing) ==
  IF failing THEN Raise(c, "OSError") ELSE Say(c, line)

\* Cleaner.clean as a step of a call: the rules, then the print.
CleanStep(c, flags, fault) ==
  SayOrFail([c EXCEPT !.file = Clean(@, flags), !.calls = Append(@, "clean")],
            "Cleaned HTML content.", fault = "clean")

\* HTMLProcessor.save_processed_file
save_processed_file(c, fault, created) ==
  Say(WriteToFile(Enter(c, "save_processed_file"), ProcessedFilePath(c.dir),
                  Serialize(c.file), fault = "file", created),
      "File saved as")

\* HTMLProcessor.save_only_content
save_only_content(c, content_html, fault, created) ==
  WriteToFile(Enter(c, "save_only_content"), ContentFilePath(c.dir), content_html,
              fault = "content", created)

\* HTMLProcessor.remove_all_tables
remove_all_tables(c) ==
  [c EXCEPT !.file = DecomposeAll(@, "table"),
            !.calls = Append(@, "remove_all_tables")]

\* HTMLProcessor._get_tables_content
GetTablesContent(tables) ==
  JoinLines([i \in 1..Len(tables) |-> Serialize(<<tables[i]>>)])

\* The end of separate_all_tables: the tables leave the tree, unless the
\* write raised.
DecomposeTables(c) ==
  IF c.err = "none" THEN [c EXCEPT !.file = DecomposeAll(@, "table")] ELSE c

\* separate_all_tables from the find_all on: c is the state after the purge
\* of the empty tables.
SeparateFound(c, tables, fault, created) ==
  IF tables = <<>> THEN Say(c, "No tables found to separate.")
  ELSE DecomposeTables(
         Say(WriteToFile(c, GenerateUniqueFilePath(c.dir, "tables"),
                         Serialize(Parse(GetTablesContent(tables))),
                         fault = "tables", created),
             "Tables saved as"))

\* HTMLProcessor.separate_all_tables
separate_all_tables(c, fault, created) ==
  SeparateFound([c EXCEPT !.file = clean_empty_tables(@),
                          !.calls = Append(@, "separate_all_tables")],
                FindAll(clean_empty_tables(c.file), "table"), fault, created)

\* The names of the parameters of HTMLProcessor.process (wrap_images defaults
\* to True, the others to False).
ProcessFlags == {"remove_tables", "separate_tables", "separate_content", "wrap_images"}

\* The flags process hands to Cleaner.clean: clean(wrap_images=wrap_images).
CleanerFlagsOf(opts) ==
  (CleanFlags \ {"wrap_images"}) \cup (opts \cap {"wrap_images"})

\* A statement of the form "if on: method(...)": it runs only if on holds and
\* nothing before it raised.
SaveOnlyContentIf(on, c, content_html, fault, created) ==
  IF on /\ c.err = "none" THEN save_only_content(c, content_html, fault, created) ELSE c

SeparateAllTablesIf(on, c, fault, created) ==
  IF on /\ c.err = "none" THEN separate_all_tables(c, fault, created) ELSE c

RemoveAllTablesIf(on, c) ==
  IF on /\ c.err = "none" THEN remove_all_tables(c) ELSE c

\* The last statement of process run even though a statement before it raised.
SaveProcessedFileIf_always(on, c, fault, created) ==
  save_processed_file(c, fault, created)

SaveProcessedFileIf(on, c, fault, created) ==
  IF on /\ c.err = "none" THEN save_processed_file(c, fault, created) ELSE c

\* process with the primary artifact saved before the tables are dealt with.
process_save_first(c, content_html, opts, fault, created) ==
  LET c1 == CleanStep(c, CleanerFlagsOf(opts), fault)
      c2 == SaveOnlyContentIf("separate_content" \in opts, c1, content_html, fault, created)
      c3 == SaveProcessedFileIf(TRUE, c2, fault, created)
      c4 == SeparateAllTablesIf("separate_tables" \in opts, c3, fault, created)
  IN RemoveAllTablesIf("remove_tables" \in opts, c4)

\* HTMLProcessor.process
process(c, content_html, opts, fault, created) ==
  LET c1 == CleanStep(c, CleanerFlagsOf(opts), fault)
      c2 == SaveOnlyContentIf("separate_content" \in opts, c1, content_html, fault, created)
      c3 == SeparateAllTablesIf("separate_tables" \in opts, c2, fault, created)
      c4 == RemoveAllTablesIf("remove_tables" \in opts, c3)
  IN SaveProcessedFileIf(TRUE, c4, fault, created)

\* The suffixes a path of the model can have.
Suffixes == {".html", ".HTML", ".txt"}

\* str.lower on a suffix.
Lower(sfx) == IF sfx = ".HTML" THEN ".html" ELSE sfx

\* validate_file with the suffix tested before the existence.
validate_file_suffix_first(in) ==
  IF Lower(in.suffix) # ".html" THEN "ValueError"
  ELSE IF ~ in.exists THEN "FileNotFoundError"
  ELSE "none"

\* HTMLProcessor.validate_file: the exception it raises, "none" if it returns.
validate_file(in) ==
  IF ~ in.exists THEN "FileNotFoundError"
  ELSE IF Lower(in.suffix) # ".html" THEN "ValueError"
  ELSE "none"

\* HTMLProcessor.extract_content_trafilatura: trafilatura.extract yields the
\* readable text or nothing; nothing raises ValueError.
extract_content_trafilatura(in) ==
  IF in.extract = <<>> THEN "ValueError" ELSE "none"

\* HTMLProcessor.__init__: the exception that ends it, "none" on success.
ConstructError(in) ==
  IF validate_file(in) # "none" THEN validate_file(in)
  ELSE extract_content_trafilatura(in)

\* HTMLProcessor.__init__: parse_html (validate_file, then the parse), then
\* extract_content_trafilatura. `if not soup` never holds: a BeautifulSoup
\* object is true whatever it contains.
construct(in, d) ==
  IF validate_file(in) # "none" THEN Raise(Ctx(<<>>, d), validate_file(in))
  ELSE IF extract_content_trafilatura(in) # "none"
  THEN Raise(Ctx(Parse(in.raw), d), extract_content_trafilatura(in))
  ELSE Ctx(Parse(in.raw), d)

\* ------------------------------------------------------------ input space
\* The leaves and the element kinds input documents are built from.
Leaves ==
  {TextNode(0, <<"x">>), TextNode(0, <<" ">>), Elem(0, "img", <<>>, <<>>)}

Containers ==
  {<<"p", <<>>>>, <<"span", <<<<"lang", "en">>>>>>, <<"table", <<>>>>,
   <<"div", <<<<"class", "exercise">>>>>>}

\* The trees with exactly k nodes and the forests with exactly n nodes.
RECURSIVE TreesOf(_), ForestsOf(_)
TreesOf(k) ==
  (IF k = 1 THEN Leaves ELSE {})
  \cup {Elem(0, c[1], c[2], ch) : c \in Containers, ch \in ForestsOf(k - 1)}

ForestsOf(n) ==
  IF n = 0 THEN {<<>>}
  ELSE UNION {{<<t>> \o r : t \in TreesOf(k), r \in ForestsOf(n - k)} : k \in 1..n}

\* The markup of every document of at most MaxNodes nodes.
Markups == {Serialize(d) : d \in UNION {ForestsOf(n) : n \in 0..MaxNodes}}

\* The characters of the markup: what the extractor yields when it yields.
ReadableText(raw) == SelectSeq(raw, LAMBDA t : t.k = "char")

HasReadableText(raw) ==
  \E i \in 1..Len(raw) : raw[i].k = "char" /\ raw[i].c \notin Whitespace

\* What is at the path given to HTMLProcessor: whether a file exists there,
\* the path's suffix, the file's markup and the result of trafilatura.extract
\* on it (<<>> for None).
NoInput == [exists |-> FALSE, suffix |-> ".html", raw |-> <<>>, extract |-> <<>>]

GoodInputs ==
  {[exists |-> TRUE, suffix |-> ".html", raw |-> m, extract |-> ReadableText(m)] :
     m \in {r \in Markups : HasReadableText(r)}}

\* The markup of the end-to-end scenario: an empty table and one with text.
ScenarioMarkup ==
  Serialize(<<Elem(0, "table", <<>>, <<>>),
              Elem(0, "table", <<>>, <<TextNode(0, <<"x">>)>>)>>)

\* Every way the path can be: missing or not, each suffix, extractable or not.
ScenarioInputs ==
  {[exists |-> e, suffix |-> sfx, raw |-> IF e THEN ScenarioMarkup ELSE <<>>,
    extract |-> IF e /\ x THEN ReadableText(ScenarioMarkup) ELSE <<>>] :
     e \in BOOLEAN, sfx \in Suffixes, x \in BOOLEAN}

EmptyDir == [p \in {} |-> OldContent]

\* The output directories before the run: at most MaxPre files.
InitDirs ==
  {[p \in S |-> OldContent] : S \in {T \in SUBSET Paths : Cardinality(T) <= MaxPre}}

\* ------------------------------------------------------------------ state
VARIABLES
  input,         \* what is at the path given to HTMLProcessor
  dir,           \* the output directory FILES: path -> content
  pc,            \* "start", "ready" (an object is constructed), "done"
  file,          \* self.file, which is also self.cleaner.content
  content_html,  \* self.content_html
  op,            \* the last operation called
  args,          \* the flags (or option tokens) it was called with
  calls,         \* the methods it entered, in order
  writes,        \* the files it opened for writing, in order
  out,           \* the lines it printed
  err            \* the exception that ended it, "none" if it returned

vars == <<input, dir, pc, file, content_html, op, args, calls, writes, out, err>>

\* What an operation leaves behind: r is the Ctx it ended with.
Finish(name, flags, r) ==
  /\ op' = name
  /\ args' = flags
  /\ file' = r.file
  /\ dir' = r.dir
  /\ calls' = r.calls
  /\ writes' = r.writes
  /\ out' = r.out
  /\ err' = r.err

Start(in, d) ==
  /\ input = in
  /\ dir = d
  /\ pc = "start"
  /\ file = <<>>
  /\ content_html = <<>>
  /\ op = "none"
  /\ args = {}
  /\ calls = <<>>
  /\ writes = <<>>
  /\ out = <<>>
  /\ err = "none"

\* Nothing is constructed yet. The path leads to some document and the
\* directory is empty, or it leads to the scenario's document (or to nothing,
\* or has the wrong suffix) and the directory holds earlier files.
Init ==
  \/ \E in \in GoodInputs : Start(in, EmptyDir)
  \/ \E in \in ScenarioInputs, d \in InitDirs : Start(in, d)

\* HTMLProcessor.__init__
Construct ==
  /\ pc = "start"
  /\ pc' = IF ConstructError(input) = "none" THEN "ready" ELSE "done"
  /\ content_html' = IF ConstructError(input) = "none" THEN input.extract ELSE <<>>
  /\ Finish("__init__", {}, construct(input, dir))
  /\ UNCHANGED input

\* The scan for a free index is unbounded in the code; the model stops at
\* MaxIndex: a call is left out when it would write beyond it.
WithinBound(d) == \A path \in DOMAIN d : path[2] <= MaxIndex

\* A call of a method on the constructed object; each behaviour makes one.
Call(name, flags, r) ==
  /\ pc = "ready"
  /\ pc' = "done"
  /\ Finish(name, flags, r)
  /\ UNCHANGED <<input, content_html>>

\* HTMLProcessor.process
Process ==
  /\ pc = "ready"
  /\ \E opts \in SUBSET ProcessFlags, fc \in FaultChoices :
       LET r == process(Ctx(file, dir), content_html, opts, fc[1], fc[2])
       IN WithinBound(r.dir) /\ Call("process", opts, r)

\* HTMLProcessor.save_only_content
SaveOnlyContent ==
  /\ pc = "ready"
  /\ \E fc \in {c \in FaultChoices : c[1] \in {"none", "content"}} :
       LET r == save_only_content(Ctx(file, dir), content_html, fc[1], fc[2])
       IN WithinBound(r.dir) /\ Call("save_only_content", {}, r)

\* HTMLProcessor.save_processed_file
SaveProcessedFile ==
  /\ pc = "ready"
  /\ \E fc \in {c \in FaultChoices : c[1] \in {"none", "file"}} :
       LET r == save_processed_file(Ctx(file, dir), fc[1], fc[2])
       IN WithinBound(r.dir) /\ Call("save_processed_file", {}, r)

\* HTMLProcessor.separate_all_tables
SeparateAllTables ==
  /\ pc = "ready"
  /\ \E fc \in {c \in FaultChoices : c[1] \in {"none", "tables"}} :
       LET r == separate_all_tables(Ctx(file, dir), fc[1], fc[2])
       IN WithinBound(r.dir) /\ Call("separate_all_tables", {}, r)

\* HTMLProcessor.remove_all_tables
RemoveAllTables == Call("remove_all_tables", {}, remove_all_tables(Ctx(file, dir)))

\* ---------------------------------------------------------------- Cleaner
\* Cleaner(content) on the tree of any document: the state SpecCleaner starts in.
InitCleaner ==
  /\ \E m \in Markups : file = Parse(m)
  /\ input = NoInput
  /\ dir = EmptyDir
  /\ pc = "ready"
  /\ content_html = <<>>
  /\ op = "Cleaner"
  /\ args = {}
  /\ calls = <<>>
  /\ writes = <<>>
  /\ out = <<>>
  /\ err = "none"

\* A Cleaner method that rewrites the tree and does nothing else.
Rule(name, f) == Call(name, {}, [Ctx(f, dir) EXCEPT !.calls = <<name>>])

RemoveLangAttributes == Rule("remove_lang_attributes", remove_lang_attributes(file))

CleanEmptyTables == Rule("clean_empty_tables", clean_empty_tables(file))

WrapParagraphWithDiv == Rule("wrap_paragraph_with_div", wrap_paragraph_with_div(file))

RemoveSpansTags == Rule("remove_spans_tags", remove_spans_tags(file))

RemoveImgsTags == Rule("remove_imgs_tags", remove_imgs_tags(file))

\* Cleaner.clean
CleanCall ==
  \E flags \in SUBSET CleanFlags :
    Call("clean", flags, CleanStep(Ctx(file, dir), flags, "none"))

NextCleaner ==
  \/ RemoveLangAttributes
  \/ CleanEmptyTables
  \/ WrapParagraphWithDiv
  \/ RemoveSpansTags
  \/ RemoveImgsTags
  \/ CleanCall

SpecCleaner == InitCleaner /\ [][NextCleaner]_vars

\* ------------------------------------------------------------------- main
\* The tokens the user can enter at the options prompt ("5" is no menu entry).
Tokens == {"0", "1", "2", "3", "4", "5"}

\* map_options
map_options(enabled_options) ==
  (IF "1" \in enabled_options THEN {"remove_tables"} ELSE {})
  \cup (IF "2" \in enabled_options THEN {"separate_tables"} ELSE {})
  \cup (IF "3" \in enabled_options THEN {"separate_content"} ELSE {})
  \cup (IF "0" \in enabled_options THEN {"wrap_images"} ELSE {})

\* What execute_processing does ahead of a call: the line it prints, and the
\* entry the call leaves in calls.
Announce(c, line, entry) ==
  [c EXCEPT !.out = Append(@, line), !.calls = Append(@, entry)]

\* The fault the call at position n meets when the fault is due at position at.
FaultAt(n, at, fault) == IF n = at THEN fault ELSE "none"

\* A call of process made by execute_processing, announced by a printed line.
ProcessIf(on, c, line, entry, extracted, opts, fault, created) ==
  IF on /\ c.err = "none"
  THEN process(Announce(c, line, entry), extracted, opts, fault, created)
  ELSE c

\* execute_processing with `if` where the code has `elif`.
execute_processing_if(c, extracted, process_options, at, fault, created) ==
  LET c1 == SaveOnlyContentIf("separate_content" \in process_options,
                              IF "separate_content" \in process_options
                              THEN Announce(c, "Saving content...",
                                            "call:save_only_content()")
                              ELSE c,
                              extracted, FaultAt(1, at, fault), created)
      c2 == ProcessIf("wrap_images" \in process_options, c1,
                      "Cleaning HTML content...", "call:process()",
                      extracted, {"wrap_images"}, FaultAt(2, at, fault), created)
      c3 == ProcessIf("separate_tables" \in process_options, c2,
                      "Separating and removing tables...",
                      "call:process(separate_tables=True)",
                      extracted, {"separate_tables", "wrap_images"},
                      FaultAt(3, at, fault), created)
  IN ProcessIf("remove_tables" \in process_options, c3,
               "Removing tables...", "call:process(remove_tables=True)",
               extracted, {"remove_tables", "wrap_images"},
               FaultAt(3, at, fault), created)

\* execute_processing
execute_processing(c, extracted, process_options, at, fault, created) ==
  LET c1 == SaveOnlyContentIf("separate_content" \in process_options,
                              IF "separate_content" \in process_options
                              THEN Announce(c, "Saving content...",
                                            "call:save_only_content()")
                              ELSE c,
                              extracted, FaultAt(1, at, fault), created)
      c2 == ProcessIf("wrap_images" \in process_options, c1,
                      "Cleaning HTML content...", "call:process()",
                      extracted, {"wrap_images"}, FaultAt(2, at, fault), created)
      c3 == ProcessIf("separate_tables" \in process_options, c2,
                      "Separating and removing tables...",
                      "call:process(separate_tables=True)",
                      extracted, {"separate_tables", "wrap_images"},
                      FaultAt(3, at, fault), created)
  IN ProcessIf("separate_tables" \notin process_options
               /\ "remove_tables" \in process_options, c3,
               "Removing tables...", "call:process(remove_tables=True)",
               extracted, {"remove_tables", "wrap_images"},
               FaultAt(3, at, fault), created)

\* HTMLProcessor.__init__ inside main: the exception is caught and reported.
ReportInitError(c) == [c EXCEPT !.out = <<"Error initializing HTMLProcessor">>]

\* The last line of a run that got to process: main's own, or the handler's
\* around main when an exception came out of it.
LastLine(r) ==
  [r EXCEPT !.out = Append(@, IF r.err = "none" THEN "Process completed."
                              ELSE "Unexpected error")]

\* main, with the handler around it that reports an exception main lets out.
main(in, d, typed, enabled_options, at, fault, created) ==
  IF ~ typed THEN [Ctx(<<>>, d) EXCEPT !.out = <<"No file selected.">>]
  ELSE IF ConstructError(in) # "none"
  THEN ReportInitError(construct(in, d))
  ELSE IF "4" \in enabled_options
  THEN [construct(in, d) EXCEPT !.out = <<"Exiting...">>]
  ELSE LastLine(execute_processing(construct(in, d), in.extract,
                                   map_options(enabled_options), at, fault, created))

\* The call of execute_processing (1: content, 2: clean, 3: tables) a fault
\* hits, with the fault.
MainFaultChoices ==
  {<<1, "none", FALSE>>}
  \cup {<<at, c[1], c[2]>> : at \in 1..3, c \in FaultChoices \ {<<"none", FALSE>>}}

\* One run of the program: the path typed (or not), the option tokens if the
\* run gets to ask for them, and the fault if it gets to process.
Main ==
  /\ pc = "start"
  /\ \E typed \in BOOLEAN :
       LET asked == typed /\ ConstructError(input) = "none"
       IN \E enabled_options \in (IF asked THEN SUBSET Tokens ELSE {{}}) :
            \E fc \in (IF asked /\ "4" \notin enabled_options
                       THEN MainFaultChoices ELSE {<<1, "none", FALSE>>}) :
              LET r == main(input, dir, typed, enabled_options, fc[1], fc[2], fc[3])
              IN /\ WithinBound(r.dir)
                 /\ Finish(IF typed THEN "main" ELSE "main:no path", enabled_options, r)
                 /\ content_html' = IF asked THEN input.extract ELSE <<>>
  /\ pc' = "done"
  /\ UNCHANGED input

InitMain == \E in \in ScenarioInputs, d \in InitDirs : Start(in, d)

NextMain == Main

SpecMain == InitMain /\ [][NextMain]_vars

\* ------------------------------------------------------- specifications
Next ==
  \/ Construct
  \/ Process
  \/ SaveOnlyContent
  \/ SaveProcessedFile
  \/ SeparateAllTables
  \/ RemoveAllTables

Spec == Init /\ [][Next]_vars

\* ------------------------------------------------------------------ claims
Nodes(f) == Range(Descendants(f))

Ids(f) == {n.id : n \in Nodes(f)}

IsExerciseDiv(n) == n.name = "div" /\ AttrValue(n, "class") = "exercise"

\* The identities of the p elements whose parent is a div with class=exercise
\* that the parser did not make (one made by new_tag).
ExerciseWrapped(f) ==
  UNION {{n.children[i].id : i \in {k \in 1..Len(n.children) : n.children[k].name = "p"}} :
           n \in {d \in Nodes(f) : IsExerciseDiv(d) /\ d.id = 0}}

\* The node with this identity lies inside a table that has no text.
InsideEmptyTable(f, id) ==
  \E t \in Nodes(f) : IsEmptyTable(t) /\ id \in Ids(t.children)

\* A clean call with image removal enabled has just run.
CleanedImgs == op' = "clean" /\ "remove_imgs" \in args'

\* C2 as stated: after clean with wrap_images and image removal enabled,
\* every p that held an img is the child of a div with class=exercise and no
\* img is left; with wrap_images disabled clean adds no wrapper and no img is
\* left.
C2_Original ==
  [][CleanedImgs =>
       /\ FindAll(file', "img") = <<>>
       /\ "wrap_images" \in args' =>
            \A n \in Nodes(file) :
              IsParagraphWithImage(n) => n.id \in ExerciseWrapped(file')
       /\ "wrap_images" \notin args' => 0 \notin Ids(file')]_vars

\* Some img below n lies outside every table without text.
HasImageOutsideEmptyTables(f, n) ==
  \E g \in Nodes(n.children) : g.name = "img" /\ ~ InsideEmptyTable(f, g.id)

\* C2 as amended: the same, except where a table without text is involved
\* and clean_empty_tables is enabled. Such a table is removed before the
\* paragraphs are wrapped: a p inside it goes with it, and a p whose imgs were
\* all inside such tables stays, unwrapped.
C2_WrapBeforeRemoval ==
  [][CleanedImgs =>
       /\ FindAll(file', "img") = <<>>
       /\ "wrap_images" \in args' =>
            \A n \in Nodes(file) :
              IsParagraphWithImage(n) =>
                IF "clean_empty_tables" \notin args'
                THEN n.id \in ExerciseWrapped(file')
                ELSE IF InsideEmptyTable(file, n.id) THEN n.id \notin Ids(file')
                ELSE IF HasImageOutsideEmptyTables(file, n)
                THEN n.id \in ExerciseWrapped(file')
                ELSE n.id \in Ids(file') \ ExerciseWrapped(file')
       /\ "wrap_images" \notin args' => 0 \notin Ids(file')]_vars

\* A clean call wrapped a parsed p in a new div with class=exercise and
\* removed the img that made it do so.
C2_Witness ==
  /\ op = "clean"
  /\ {"wrap_images", "remove_imgs"} \subseteq args
  /\ FindAll(file, "img") = <<>>
  /\ \E n \in Nodes(file) :
       /\ IsExerciseDiv(n) /\ n.id = 0
       /\ Len(n.children) = 1
       /\ n.children[1].name = "p" /\ n.children[1].id > 0

\* The rules of Cleaner, by method name.
RuleNames ==
  {"remove_lang_attributes", "clean_empty_tables", "wrap_paragraph_with_div",
   "remove_spans_tags", "remove_imgs_tags"}

ApplyRule(name, f) ==
  CASE name = "remove_lang_attributes" -> remove_lang_attributes(f)
    [] name = "clean_empty_tables" -> clean_empty_tables(f)
    [] name = "wrap_paragraph_with_div" -> wrap_paragraph_with_div(f)
    [] name = "remove_spans_tags" -> remove_spans_tags(f)
    [] name = "remove_imgs_tags" -> remove_imgs_tags(f)

\* C3: every rule is idempotent: once a rule has run, running it again
\* leaves the serialized tree as it is.
C3_Idempotent ==
  op \in RuleNames => Serialize(ApplyRule(op, file)) = Serialize(file)

\* A clean call with every rule enabled has just run.
CleanedAll == op' = "clean" /\ args' = CleanFlags

\* C10 as stated: after clean with every rule enabled no element of the tree
\* has an empty stripped text.
C10_Original ==
  (op = "clean" /\ args = CleanFlags) =>
    \A n \in Nodes(file) : IsText(n) \/ StrippedTextNonEmpty(n)

\* C10 as amended: after clean with every rule enabled the tree has no img,
\* no span, no lang attribute and no table without text, and nothing else was
\* removed: an element that is no img, no span and not (in) a table without
\* text is still in the tree, with or without text.
C10_NoSweep ==
  [][CleanedAll =>
       /\ \A n \in Nodes(file') :
            /\ n.name \notin {"img", "span"}
            /\ ~ HasAttr(n, "lang")
            /\ ~ IsEmptyTable(n)
       /\ \A n \in Nodes(file) :
            (/\ n.name \notin {"img", "span"}
             /\ ~ IsEmptyTable(n)
             /\ ~ InsideEmptyTable(file, n.id)) => n.id \in Ids(file')]_vars

\* clean ran with every rule enabled and left a wrapper and a paragraph
\* without any text behind.
C10_Witness ==
  /\ op = "clean" /\ args = CleanFlags
  /\ \E n \in Nodes(file) :
       /\ IsExerciseDiv(n) /\ n.id = 0
       /\ n.children[1].name = "p"
       /\ ~ StrippedTextNonEmpty(n)

Last(q) == q[Len(q)]

IsPrefix(a, b) == Len(a) <= Len(b) /\ \A i \in 1..Len(a) : a[i] = b[i]

\* The category each writing method names its files after.
CategoryOf(method) ==
  CASE method = "save_processed_file" -> "file"
    [] method = "separate_all_tables" -> "tables"
    [] method = "save_only_content" -> "content"

\* The paths that exist when the i-th write of the step is made.
TakenBefore(i) == DOMAIN dir \cup {writes'[k].path : k \in 1..(i - 1)}

\* C1: every write goes to <category>-<N> with N the smallest positive
\* integer whose file does not exist yet, in the category of the method that
\* writes; no file that existed before the operation is changed by it, and
\* nothing but the files written is new.
C1_SmallestFreeIndex ==
  [][ /\ \A i \in 1..Len(writes') :
          LET w == writes'[i]
          IN /\ w.path[1] = CategoryOf(w.by)
             /\ w.path[2] >= 1
             /\ w.path \notin TakenBefore(i)
             /\ \A k \in 1..(w.path[2] - 1) : <<w.path[1], k>> \in TakenBefore(i)
      /\ \A q \in DOMAIN dir : q \in DOMAIN dir' /\ dir'[q] = dir[q]
      /\ DOMAIN dir' = TakenBefore(Len(writes') + 1)]_vars

\* file-1 and file-2 were there before the run and process wrote file-3.
C1_Witness ==
  /\ op = "process"
  /\ <<"file", 1>> \in DOMAIN dir /\ dir[<<"file", 1>>] = OldContent
  /\ <<"file", 2>> \in DOMAIN dir /\ dir[<<"file", 2>>] = OldContent
  /\ \E i \in 1..Len(writes) : writes[i].path = <<"file", 3>> /\ writes[i].complete

Opt(on, step) == IF on THEN <<step>> ELSE <<>>

\* The steps of process in the order of the code.
StepsOf(opts) ==
  <<"clean">> \o Opt("separate_content" \in opts, "save_only_content")
              \o Opt("separate_tables" \in opts, "separate_all_tables")
              \o Opt("remove_tables" \in opts, "remove_all_tables")
              \o <<"save_processed_file">>

\* The steps of process as C4 states them: tables are removed only when they
\* are not separated.
StepsClaimed(opts) ==
  <<"clean">> \o Opt("separate_content" \in opts, "save_only_content")
              \o Opt("separate_tables" \in opts, "separate_all_tables")
              \o Opt("separate_tables" \notin opts /\ "remove_tables" \in opts,
                     "remove_all_tables")
              \o <<"save_processed_file">>

HasTableTag(content) == \E i \in 1..Len(content) : content[i].name = "table"

\* The methods that wrote, in the order in which they were entered.
Writers == SelectSeq(calls, LAMBDA m : \E i \in 1..Len(writes) : writes[i].by = m)

\* What C4 says of a completed process call whose steps are steps: they ran
\* in that order, the writes were made in the order of the steps, exactly one
\* primary artifact was written, as the last write, and it holds no table
\* when the tables were to be separated or removed.
CompletedProcess(steps) ==
  (op = "process" /\ err = "none") =>
    /\ calls = steps
    /\ Writers = [i \in 1..Len(writes) |-> writes[i].by]
    /\ Cardinality({i \in 1..Len(writes) : writes[i].path[1] = "file"}) = 1
    /\ Last(writes).path[1] = "file" /\ Last(writes).complete
    /\ (args \cap {"separate_tables", "remove_tables"} # {}
          => ~ HasTableTag(Last(writes).content))

\* C4 as stated: clean, content (if separate_content), separate tables (if
\* separate_tables), otherwise remove tables (if remove_tables), primary.
C4_Original == CompletedProcess(StepsClaimed(args))

\* C4 as amended: remove_all_tables runs whenever remove_tables is set, also
\* after a separation (where it finds no table left).
C4_ProcessOrder == CompletedProcess(StepsOf(args))

\* A completed call with separate_tables and remove_tables both set wrote a
\* tables artifact and then entered remove_all_tables.
C4_Witness ==
  /\ op = "process" /\ err = "none"
  /\ {"separate_tables", "remove_tables"} \subseteq args
  /\ \E i \in 1..Len(writes) : writes[i].path[1] = "tables"
  /\ \E i \in 1..Len(calls) : calls[i] = "remove_all_tables"

HasTextTable(f) == \E t \in Nodes(f) : t.name = "table" /\ StrippedTextNonEmpty(t)

SerializedEach(q) == [i \in 1..Len(q) |-> Serialize(<<q[i]>>)]

\* The content of the tables artifact among these writes (<<>> if none).
TablesArtifact(ws) ==
  IF \E i \in 1..Len(ws) : ws[i].path[1] = "tables"
  THEN ws[CHOOSE i \in 1..Len(ws) : ws[i].path[1] = "tables"].content
  ELSE <<>>

\* C5: after a completed process call with separate_tables the tables
\* artifact holds every table with text exactly once, in document order, and
\* no other table, and the primary artifact holds no table.
C5_EachTableOnce ==
  [][(op' = "process" /\ err' = "none" /\ "separate_tables" \in args') =>
       (/\ SerializedEach(FindAll(Parse(TablesArtifact(writes')), "table"))
            = SerializedEach(SelectSeq(FindAll(Clean(file, CleanerFlagsOf(args')), "table"),
                                       StrippedTextNonEmpty))
        /\ ~ HasTableTag(Last(writes').content))]_vars

TablesWritten(ws) == \E i \in 1..Len(ws) : ws[i].path[1] = "tables"

\* C6: a tables artifact is written only by a separation and only when the
\* document holds a table with text; a completed process call with
\* separate_tables on a document without such a table writes no tables
\* artifact and still writes the primary one.
C6_TablesOnlyWhenFound ==
  [][ /\ TablesWritten(writes') =>
          (/\ \/ op' = "process" /\ "separate_tables" \in args'
              \/ op' = "separate_all_tables"
           /\ HasTextTable(file))
      /\ (op' = "process" /\ "separate_tables" \in args' /\ err' = "none"
          /\ ~ HasTextTable(file)) =>
          (/\ ~ TablesWritten(writes')
           /\ Last(writes').path[1] = "file" /\ Last(writes').complete)]_vars

\* The document had a table, none with text; process with separate_tables
\* found nothing to separate and wrote the primary artifact alone.
C6_Witness ==
  /\ op = "process" /\ err = "none" /\ "separate_tables" \in args
  /\ HasTableTag(input.raw)
  /\ \E i \in 1..Len(out) : out[i] = "No tables found to separate."
  /\ Len(writes) = 1 /\ writes[1].path[1] = "file" /\ writes[1].complete

\* What C7 says of a construction, given the paths that fail with ValueError.
Construction(invalid) ==
  op' = "__init__" =>
    (/\ ~ input.exists => err' = "FileNotFoundError"
     /\ invalid => err' = "ValueError"
     /\ err' # "none" => (dir' = dir /\ writes' = <<>>))

\* C7 as stated: a missing path fails with FileNotFoundError, any path whose
\* suffix is not .html fails with ValueError, and a failing construction
\* leaves the output directory as it was.
C7_Original == [][Construction(Lower(input.suffix) # ".html")]_vars

\* C7 as amended: the suffix is looked at only when a file exists at the
\* path: a missing path fails with FileNotFoundError whatever its suffix.
C7_Construct ==
  [][Construction(input.exists /\ Lower(input.suffix) # ".html")]_vars

\* A .txt file that exists was refused with ValueError, next to earlier files
\* in the output directory.
C7_Witness ==
  /\ op = "__init__" /\ err = "ValueError"
  /\ input.exists /\ input.suffix = ".txt"
  /\ dir # EmptyDir

\* The entries execute_processing leaves in calls.
CallEntries ==
  {"call:save_only_content()", "call:process()", "call:process(separate_tables=True)",
   "call:process(remove_tables=True)"}

Invoked == SelectSeq(calls, LAMBDA e : e \in CallEntries)

\* The calls C8 expects for a set of tokens without 4, each followed by the
\* steps the call takes when nothing fails.
ExpectedCalls(tokens) ==
  Opt("3" \in tokens, "call:save_only_content()")
  \o Opt("0" \in tokens, "call:process()")
  \o Opt("2" \in tokens, "call:process(separate_tables=True)")
  \o Opt("1" \in tokens /\ "2" \notin tokens, "call:process(remove_tables=True)")

ExpectedTrace(tokens) ==
  (IF "3" \in tokens THEN <<"call:save_only_content()", "save_only_content">> ELSE <<>>)
  \o (IF "0" \in tokens THEN <<"call:process()">> \o StepsOf({}) ELSE <<>>)
  \o (IF "2" \in tokens
      THEN <<"call:process(separate_tables=True)">> \o StepsOf({"separate_tables"})
      ELSE IF "1" \in tokens
      THEN <<"call:process(remove_tables=True)">> \o StepsOf({"remove_tables"})
      ELSE <<>>)

\* C8: after a successful construction, with 4 among the tokens nothing is
\* called and nothing written; without it the calls are save_only_content
\* (iff 3), process() (iff 0), process(separate_tables=True) (iff 2) and
\* process(remove_tables=True) (iff 1 without 2), once each and in that
\* order, and "Process completed." is the last line. A run in which a call
\* raises makes the calls up to that one and does not report completion.
C8_Dispatch ==
  (op = "main" /\ ConstructError(input) = "none") =>
    IF "4" \in args
    THEN calls = <<>> /\ writes = <<>> /\ out = <<"Exiting...">>
    ELSE /\ IsPrefix(Invoked, ExpectedCalls(args))
         /\ err = "none" =>
              (/\ Invoked = ExpectedCalls(args)
               /\ calls = ExpectedTrace(args)
               /\ Last(out) = "Process completed.")
         /\ err # "none" => \A i \in 1..Len(out) : out[i] # "Process completed."

\* The run of test_main_multiple_options: tokens 0 1 2 3, three calls.
C8_Witness ==
  /\ op = "main" /\ err = "none"
  /\ args = {"0", "1", "2", "3"}
  /\ Invoked = <<"call:save_only_content()", "call:process()",
                 "call:process(separate_tables=True)">>
  /\ Last(out) = "Process completed."

\* C9: when a step of process fails, the exception is the last thing of the
\* call: the steps entered are the first steps of the call and none is
\* entered after the raise, no file is opened after the failing write, and
\* every file the call had written completely is on disk with what was
\* written.
C9_FailureAborts ==
  (op = "process" /\ err # "none") =>
    /\ Last(calls) = "raise"
    /\ IsPrefix(SubSeq(calls, 1, Len(calls) - 1), StepsOf(args))
    /\ \A i \in 1..Len(writes) :
         /\ i < Len(writes) => writes[i].complete
         /\ ~ writes[i].complete => writes[i].by = calls[Len(calls) - 1]
         /\ writes[i].complete =>
              (/\ writes[i].path \in DOMAIN dir
               /\ dir[writes[i].path] = writes[i].content)

\* The content artifact was written, then the write of the tables artifact
\* failed: the content artifact is on disk and no primary artifact was written.
C9_Witness ==
  /\ op = "process" /\ err = "OSError"
  /\ Len(writes) = 2
  /\ writes[1].path[1] = "content" /\ writes[1].complete
  /\ dir[writes[1].path] = content_html
  /\ writes[2].path[1] = "tables" /\ ~ writes[2].complete
  /\ \A i \in 1..Len(calls) : calls[i] # "save_processed_file"

====
